---- MODULE Spec2Model ----
(***************************************************************************)
(* Model of the EVE scoring engine (src/eve_scoring.py) over the Deal      *)
(* record of src/eve_models.py.                                            *)
(*                                                                         *)
(* Python floats are modelled in fixed point:                              *)
(*   money                      integer currency units                     *)
(*   probabilities, confidence  thousandths            (PScale)            *)
(*   discount rate              hundredths             (RateScale)         *)
(*   discount factors           thousandths            (DScale)            *)
(*   present values             money * DScale                             *)
(*   benefit/cost ratios        thousandths            (RScale)            *)
(*   pillar scores              hundredths of a point  (SScale)            *)
(*   weights                    millionths             (WScale)            *)
(*   EVI, EVI_conf              1e-5 of a point        (EScale)            *)
(* Every division rounds towards minus infinity, which, like IEEE          *)
(* rounding, is monotone.                                                  *)
(***************************************************************************)
EXTENDS Integers, Sequences, FiniteSets, TLC

VARIABLES
    heap,       \* the Deal objects: heap[DealRef] is the caller's deal, the rest are copies
    given,      \* the deal as the caller last set it
    config,     \* the EVEConfig the caller holds (NoConfig when none was constructed)
    cfgArg,     \* the weights argument of the EVEConfig(...) call
    cfgStatus,  \* "none" | "ok" | "error": the outcome of EVEConfig(...)
    pc,         \* "idle" | "sens": position of the compute_eve call in progress
    frame,      \* locals of the compute_eve call in progress
    runs,       \* the pipeline runs of the current (or last) compute_eve call
    results,    \* the outcome of every finished compute_eve call, oldest first
    changes     \* what the caller did to the deal before each call

vars == <<heap, given, config, cfgArg, cfgStatus, pc, frame, runs, results, changes>>

(***************************************************************************)
(* Bounds of the model.                                                    *)
(***************************************************************************)
MaxHorizon == 2     \* horizon_years is 1 or MaxHorizon
MaxItems == 1       \* longest list of events, initiatives, options, scenarios
MaxPopulated == 2   \* most optional pillar datasets a deal carries
MaxCalls == 2       \* compute_eve calls per behaviour
MaxDepth == 1       \* deepest nesting of sensitivity reruns that is followed
MaxWorkers == 2     \* most scenarios of one call that are under way at once

(***************************************************************************)
(* Fixed-point scales.                                                     *)
(***************************************************************************)
PScale == 1000
RateScale == 100
DScale == 1000
RScale == 1000
SScale == 100
WScale == 1000000
ExpScale == 1000

Pillars == {"v1", "v2", "v3", "v4", "v5"}
PillarOrder == <<"v1", "v2", "v3", "v4", "v5">>

None == [some |-> FALSE]
Some(x) == [some |-> TRUE, val |-> x]
OrEmpty(opt) == IF opt.some THEN opt.val ELSE <<>>

Abs(x) == IF x < 0 THEN -x ELSE x

RECURSIVE SumSeq(_)
SumSeq(s) == IF s = <<>> THEN 0 ELSE Head(s) + SumSeq(Tail(s))

RECURSIVE Pow(_, _)
Pow(x, n) == IF n = 0 THEN 1 ELSE x * Pow(x, n - 1)

\* floor(w * s / 1000) without leaving 32 bits: w = q * 1000 + r
FxMul(w, s) == (w \div 1000) * s + ((w % 1000) * s) \div 1000

(***************************************************************************)
(* EVEConfig (eve_scoring.py:9-20).  A weight mapping is a function from   *)
(* the pillar ids it has to millionths; NoWeights is weights=None.         *)
(***************************************************************************)
NoWeights == [none |-> TRUE]
DefaultWeights ==
    [v1 |-> 250000, v2 |-> 200000, v3 |-> 200000, v4 |-> 200000, v5 |-> 150000]
DefaultLogisticA == 6
DefaultLogisticB == 100
\* 1e-6 in millionths
WeightTolerance == 1

RECURSIVE SumValues(_, _)
SumValues(f, keys) ==
    IF keys = {} THEN 0
    ELSE LET k == CHOOSE x \in keys : TRUE
         IN f[k] + SumValues(f, keys \ {k})

\* sum(self.weights.values())
WeightSum(w) == SumValues(w, DOMAIN w)

\* the check without abs(): a sum below 1.0 passes
WeightsRejectedNoAbs(w) == WeightSum(w) - WScale > WeightTolerance

\* abs(s - 1.0) > 1e-6
WeightsRejected(w) == Abs(WeightSum(w) - WScale) > WeightTolerance

\* EVEConfig(weights=w): the constructed object, or the ValueError of line 20
EVEConfig(w) ==
    LET weights == IF w = NoWeights THEN DefaultWeights ELSE w
    IN IF WeightsRejected(weights)
       THEN [status |-> "ValueError"]
       ELSE [status |-> "ok",
             weights |-> weights,
             logistic_a |-> DefaultLogisticA,
             logistic_b |-> DefaultLogisticB]

NoConfig == [status |-> "none"]

(***************************************************************************)
(* Numeric helpers (eve_scoring.py:22-35).                                 *)
(***************************************************************************)
clamp(x, lo, hi) ==
    LET m == IF hi < x THEN hi ELSE x
    IN IF lo > m THEN lo ELSE m

\* math.exp raises OverflowError above 709.782...
ExpOverflowAt == 709782
ExpTableLo == -7
ExpTableHi == 14
\* e^k in thousandths for k = -7 .. 14
ExpTable ==
    <<1, 2, 7, 18, 50, 135, 368, 1000, 2718, 7389, 20086, 54598, 148413,
      403429, 1096633, 2980958, 8103084, 22026466, 59874142, 162754791,
      442413392, 1202604284>>
ExpAt(k) == ExpTable[k - ExpTableLo + 1]

\* e^(f / 1000) in thousandths for 0 <= f < 1000: the series up to f^4
ExpFraction(f) ==
    1000 + f + (f * f) \div 2000 + (f * f * f) \div 6000000
    + (((f * f * f) \div 1000) * f) \div 24000000

\* math.exp(y / 1000) in thousandths: e^k from the table times e^f; it
\* underflows to 0 below the table and is capped at the top of the table.
Exp(y) ==
    LET k == y \div 1000
        f == y % 1000
    IN IF k < ExpTableLo THEN 0
       ELSE IF k >= ExpTableHi THEN ExpAt(ExpTableHi)
       ELSE IF ExpAt(k) < 700000
            THEN (ExpAt(k) * ExpFraction(f)) \div 1000
            ELSE (ExpAt(k) \div 1000) * ExpFraction(f)

\* 100.0 / (1.0 + math.exp(-a * (R - b))): a score in hundredths, or the
\* OverflowError of math.exp
logistic_score(R, a, b) ==
    LET y == (-a) * (R - b)
    IN IF y > ExpOverflowAt
       THEN [status |-> "OverflowError"]
       ELSE [status |-> "ok",
             val |-> (100 * SScale * ExpScale) \div (ExpScale + Exp(y))]

\* [1.0 / ((1.0 + r) ** t) for t in range(1, T + 1)]
discount_factors(T, r) ==
    [t \in 1..T |-> (DScale * Pow(RateScale, t)) \div Pow(RateScale + r, t)]

\* the cost without capex_upfront
compute_pv_cost_opex_only(deal, d) ==
    SumSeq([t \in 1..deal.meta.horizon_years |->
              d[t] * deal.investment.opex_annual[t]])

\* capex_upfront + sum of d[t] * opex_annual[t]
compute_pv_cost(deal, d) ==
    deal.investment.capex_upfront * DScale
    + SumSeq([t \in 1..deal.meta.horizon_years |->
                d[t] * deal.investment.opex_annual[t]])

(***************************************************************************)
(* Pillar benefit calculators (eve_scoring.py:37-68); present values in    *)
(* money * DScale.                                                         *)
(***************************************************************************)
Horizon(deal) == 1..deal.meta.horizon_years

compute_v1(deal, d) ==
    LET v1 == deal.v1_capital_productivity
    IN IF ~v1.some \/ ~v1.val.fcf_benefit_annual.some
       THEN 0
       ELSE SumSeq([t \in Horizon(deal) |->
                      d[t] * v1.val.fcf_benefit_annual.val[t]])

compute_v2(deal, d) ==
    LET events == OrEmpty(deal.v2_risk_events)
        annual_reduction ==
            SumSeq([i \in 1..Len(events) |->
                      events[i].p0 * events[i].L0 - events[i].p1 * events[i].L1])
    IN SumSeq([t \in Horizon(deal) |-> (d[t] * annual_reduction) \div PScale])

compute_v3(deal, d) ==
    LET inits == OrEmpty(deal.v3_initiatives)
    IN SumSeq([i \in 1..Len(inits) |->
                 (d[1] * (inits[i].prob * inits[i].months_accel
                          * inits[i].monthly_profit)) \div PScale])

compute_v4(deal) ==
    LET opts == OrEmpty(deal.v4_options)
        raw == SumSeq([i \in 1..Len(opts) |->
                         (opts[i].prob
                          * ((opts[i].feasibility_lift * opts[i].npv_if_pursued
                              * DScale) \div PScale
                             + opts[i].exercise_cost_reduction_pv * DScale))
                         \div PScale])
    IN IF deal.v4_oqi.some
       THEN LET A == clamp(deal.v4_oqi.val.flexibility, 0, 5)
                V == clamp(deal.v4_oqi.val.portability, 0, 5)
                D == clamp(deal.v4_oqi.val.data_liquidity, 0, 5)
                S == clamp(deal.v4_oqi.val.scalability, 0, 5)
            IN ((A + V + D + S) * raw) \div 20
       ELSE raw

compute_v5(deal, d) ==
    LET scenarios == OrEmpty(deal.v5_resilience)
        annual_reduction ==
            SumSeq([i \in 1..Len(scenarios) |->
                      scenarios[i].p
                      * (scenarios[i].mttr0_hours - scenarios[i].mttr1_hours)
                      * scenarios[i].cost_per_hour])
    IN SumSeq([t \in Horizon(deal) |-> (d[t] * annual_reduction) \div PScale])

(***************************************************************************)
(* Consistency checker (eve_scoring.py:70-81).  A name is a sequence of    *)
(* character codes.                                                        *)
(***************************************************************************)
IsSpace(c) == c \in {9, 10, 11, 12, 13, 32}

RECURSIVE LStrip(_)
LStrip(s) ==
    IF s # <<>> /\ IsSpace(Head(s)) THEN LStrip(Tail(s)) ELSE s

RECURSIVE RStrip(_)
RStrip(s) ==
    IF s # <<>> /\ IsSpace(s[Len(s)])
    THEN RStrip(SubSeq(s, 1, Len(s) - 1))
    ELSE s

\* str.strip()
Strip(s) == RStrip(LStrip(s))

\* str.lower()
Lower(s) == [i \in 1..Len(s) |-> IF s[i] \in 65..90 THEN s[i] + 32 ELSE s[i]]

\* (x.name or "").strip().lower()
NormName(name) == Lower(Strip(name))

\* s < t in the order of Python strings
RECURSIVE StrLess(_, _)
StrLess(s, t) ==
    IF t = <<>> THEN FALSE
    ELSE IF s = <<>> THEN TRUE
    ELSE IF Head(s) # Head(t) THEN Head(s) < Head(t)
    ELSE StrLess(Tail(s), Tail(t))

\* sorted(list(S)) for a set of names
RECURSIVE SortedNames(_)
SortedNames(S) ==
    IF S = {} THEN <<>>
    ELSE LET m == CHOOSE x \in S : \A y \in S \ {x} : StrLess(x, y)
         IN <<m>> \o SortedNames(S \ {m})

NameSet(items) == {NormName(items[i].name) : i \in 1..Len(items)}

detect_double_counting(deal) ==
    LET v2_names == NameSet(OrEmpty(deal.v2_risk_events))
        v5_names == NameSet(OrEmpty(deal.v5_resilience))
        overlap == SortedNames(v2_names \cap v5_names)
    IN IF overlap # <<>>
       THEN <<[text |-> "Potential double counting for", names |-> overlap]>>
       ELSE <<>>

(***************************************************************************)
(* One run of the scoring pipeline: compute_eve up to the construction of  *)
(* `result` (eve_scoring.py:85-130).  The outcome is the result record, or *)
(* the exception that ends the run.                                        *)
(***************************************************************************)
Raised(exc) == [status |-> exc]

Pipeline(deal, cfg) ==
    LET T == deal.meta.horizon_years
        r == deal.meta.discount_rate
        d == discount_factors(T, r)
        pv_cost == compute_pv_cost(deal, d)
        benefits == [v1 |-> compute_v1(deal, d),
                     v2 |-> compute_v2(deal, d),
                     v3 |-> compute_v3(deal, d),
                     v4 |-> compute_v4(deal),
                     v5 |-> compute_v5(deal, d)]
        Ratio(k) == (benefits[k] * RScale) \div pv_cost
        ScoreOf(k) == logistic_score(Ratio(k), cfg.logistic_a, cfg.logistic_b)
        w == cfg.weights
        Conf(k) == clamp(deal.confidence[k], 0, PScale)
        ScoreVal(k) == ScoreOf(k).val
        EviTerm(k) == FxMul(w[k], ScoreVal(k))
        ConfTerm(k) == FxMul(w[k], (Conf(k) * ScoreVal(k)) \div PScale)
        CwTerm(k) == FxMul(w[k], Conf(k))
    IN IF pv_cost <= 0 THEN Raised("ValueError")
       ELSE IF \E k \in Pillars : ScoreOf(k).status # "ok" THEN Raised("OverflowError")
       ELSE IF \E k \in Pillars : k \notin DOMAIN w THEN Raised("KeyError")
       ELSE [status |-> "ok",
             pv_cost |-> pv_cost,
             pillar_pv_benefits |-> benefits,
             pillar_ratios |-> [k \in Pillars |-> Ratio(k)],
             pillar_scores |-> [k \in Pillars |-> ScoreVal(k)],
             weights |-> w,
             EVI |-> SumSeq([i \in 1..5 |-> EviTerm(PillarOrder[i])]),
             EVI_conf |-> SumSeq([i \in 1..5 |-> ConfTerm(PillarOrder[i])]),
             confidence_weighted |-> SumSeq([i \in 1..5 |-> CwTerm(PillarOrder[i])]),
             warnings |-> detect_double_counting(deal),
             sensitivities |-> <<>>,
             config |-> [logistic_a |-> cfg.logistic_a, logistic_b |-> cfg.logistic_b]]

(***************************************************************************)
(* Sensitivity runner (eve_scoring.py:137-168).                            *)
(***************************************************************************)
ScenarioKeys ==
    <<"v1_fcf_plus10", "v2_p1_minus10", "v3_profit_plus10", "v5_costhr_plus10">>
NumScenarios == Len(ScenarioKeys)

ScenarioLabel(key) ==
    CASE key = "v1_fcf_plus10" -> "Scale V1 annual FCF benefits +10%"
      [] key = "v2_p1_minus10" -> "Reduce V2 post probabilities p1 by 10% (relative)"
      [] key = "v3_profit_plus10" -> "Scale V3 monthly profit +10%"
      [] key = "v5_costhr_plus10" -> "Scale V5 cost per hour +10%"

\* x * 1.10 and x * 0.90
Times110(x) == (x * 110) \div 100
Times090(x) == (x * 90) \div 100

\* the mutation a scenario makes to the deal it is given (lines 149-162)
Perturb(deal, key) ==
    LET v1 == deal.v1_capital_productivity
        v2 == deal.v2_risk_events
        v3 == deal.v3_initiatives
        v5 == deal.v5_resilience
    IN CASE key = "v1_fcf_plus10" ->
              IF v1.some /\ v1.val.fcf_benefit_annual.some
                 /\ v1.val.fcf_benefit_annual.val # <<>>
              THEN [deal EXCEPT !.v1_capital_productivity.val.fcf_benefit_annual.val =
                        [t \in DOMAIN @ |-> Times110(@[t])]]
              ELSE deal
         [] key = "v2_p1_minus10" ->
              IF v2.some /\ v2.val # <<>>
              THEN [deal EXCEPT !.v2_risk_events.val =
                        [i \in DOMAIN @ |->
                            [@[i] EXCEPT !.p1 = clamp(Times090(@), 0, PScale)]]]
              ELSE deal
         [] key = "v3_profit_plus10" ->
              IF v3.some /\ v3.val # <<>>
              THEN [deal EXCEPT !.v3_initiatives.val =
                        [i \in DOMAIN @ |->
                            [@[i] EXCEPT !.monthly_profit = Times110(@)]]]
              ELSE deal
         [] key = "v5_costhr_plus10" ->
              IF v5.some /\ v5.val # <<>>
              THEN [deal EXCEPT !.v5_resilience.val =
                        [i \in DOMAIN @ |->
                            [@[i] EXCEPT !.cost_per_hour = Times110(@)]]]
              ELSE deal

\* no copy at all: the "copy" is the object itself
deepcopy_alias(h, ref) == [heap |-> h, ref |-> ref]

\* copy.deepcopy(deal): a new object with the same content
deepcopy(h, ref) == [heap |-> Append(h, h[ref]), ref |-> Len(h) + 1]

\* the entry without the subtraction of base_evi
SensEntryAbsolute(key, evi2, base_evi) ==
    [factor |-> key, label |-> ScenarioLabel(key), delta_evi |-> evi2]

SensEntry(key, evi2, base_evi) ==
    [factor |-> key, label |-> ScenarioLabel(key), delta_evi |-> evi2 - base_evi]

\* the insertion of a sort that is not stable: e goes in front of its equals
RECURSIVE InsertSortedUnstable(_, _)
InsertSortedUnstable(sorted, e) ==
    IF sorted = <<>> THEN <<e>>
    ELSE IF Abs(Head(sorted).delta_evi) > Abs(e.delta_evi)
         THEN <<Head(sorted)>> \o InsertSortedUnstable(Tail(sorted), e)
         ELSE <<e>> \o sorted

\* where list.sort(key=abs(delta_evi), reverse=True) puts e in a sorted list:
\* behind every entry whose key is at least e's
RECURSIVE InsertSorted(_, _)
InsertSorted(sorted, e) ==
    IF sorted = <<>> THEN <<e>>
    ELSE IF Abs(Head(sorted).delta_evi) >= Abs(e.delta_evi)
         THEN <<Head(sorted)>> \o InsertSorted(Tail(sorted), e)
         ELSE <<e>> \o sorted

\* out.sort(key=lambda x: abs(x["delta_evi"]), reverse=True), a stable sort
RECURSIVE SortSens(_)
SortSens(out) ==
    IF out = <<>> THEN <<>>
    ELSE InsertSorted(SortSens(SubSeq(out, 1, Len(out) - 1)), out[Len(out)])

\* a rerun that asks for sensitivities again
RerunSensitivityOn == TRUE

\* the run_sensitivity argument of the rerun on line 164
RerunSensitivity == FALSE

RECURSIVE SumTo(_, _)
SumTo(f, n) == IF n = 0 THEN 0 ELSE f[n] + SumTo(f, n - 1)

(***************************************************************************)
(* compute_eve as its callee sees it (eve_scoring.py:83-135): the outcome  *)
(* of the call on a deal that nobody else refers to, and the number of     *)
(* pipeline runs the call makes.  Nested sensitivity reruns are followed   *)
(* down to MaxDepth.                                                       *)
(***************************************************************************)
RECURSIVE compute_eve(_, _, _, _)
compute_eve(deal, cfg, run_sensitivity, depth) ==
    LET base == Pipeline(deal, cfg)
    IN IF base.status # "ok" \/ ~run_sensitivity \/ depth > MaxDepth
       THEN [outcome |-> base, pipelines |-> 1]
       ELSE LET sub == [i \in 1..NumScenarios |->
                          compute_eve(Perturb(deal, ScenarioKeys[i]), cfg,
                                      RerunSensitivity, depth + 1)]
                failed == {i \in 1..NumScenarios : sub[i].outcome.status # "ok"}
                first == CHOOSE i \in failed : \A j \in failed : i <= j
                count == [i \in 1..NumScenarios |-> sub[i].pipelines]
            IN IF failed # {}
               THEN [outcome |-> sub[first].outcome,
                     pipelines |-> 1 + SumTo(count, first)]
               ELSE [outcome |->
                        [base EXCEPT !.sensitivities =
                            SortSens([i \in 1..NumScenarios |->
                                        SensEntry(ScenarioKeys[i],
                                                  sub[i].outcome.EVI, base.EVI)])],
                     pipelines |-> 1 + SumTo(count, NumScenarios)]

(***************************************************************************)
(* The deals the caller may pass: validated Deal records                   *)
(* (eve_models.py:17-93).                                                  *)
(***************************************************************************)
Flat(T, x) == [t \in 1..T |-> x]

\* sequences of at most n elements of S
RECURSIVE SeqsUpTo(_, _)
SeqsUpTo(S, n) ==
    IF n = 0 THEN {<<>>}
    ELSE LET shorter == SeqsUpTo(S, n - 1)
         IN shorter \cup {Append(q, x) : q \in shorter, x \in S}

\* the non-empty ones
ListsUpTo(S, n) == SeqsUpTo(S, n) \ {<<>>}

Optional(S) == {None} \cup {Some(x) : x \in S}

DiscountRates == {10}
\* <<capex_upfront, opex_annual[t]>>
CostProfiles == {<<0, 0>>, <<1, 0>>, <<100, 10>>}
FcfValues == {-120, 30}
V2Names == {<<97>>, <<98>>}
V5Names == {<<32, 65, 32>>, <<98>>}
V3Name == <<108>>
V4Name == <<111>>

Metas == [horizon_years : {1, MaxHorizon}, discount_rate : DiscountRates]
Investments(T) ==
    {[capex_upfront |-> c[1], opex_annual |-> Flat(T, c[2])] : c \in CostProfiles}
V1s(T) ==
    Optional([fcf_benefit_annual :
                Optional({Flat(T, x) : x \in FcfValues})])
RiskEvents ==
    [name : V2Names, p0 : {500}, p1 : {200}, L0 : {100}, L1 : {80}]
Initiatives ==
    [name : {V3Name}, months_accel : {2}, monthly_profit : {20}, prob : {500}]
OptionOpportunities ==
    [name : {V4Name}, prob : {500}, npv_if_pursued : {40},
     feasibility_lift : {500}, exercise_cost_reduction_pv : {0}]
V4OQIs ==
    [flexibility : {4}, portability : {4}, data_liquidity : {3}, scalability : {4}]
ResilienceScenarios ==
    [name : V5Names, p : {200}, mttr0_hours : {8}, mttr1_hours : {4},
     cost_per_hour : {50}]
DefaultConfidence == [v1 |-> 300, v2 |-> 300, v3 |-> 300, v4 |-> 300, v5 |-> 300]

OptionalFields ==
    {"v1_capital_productivity", "v2_risk_events", "v3_initiatives",
     "v4_options", "v4_oqi", "v5_resilience"}
Populated(deal) == Cardinality({f \in OptionalFields : deal[f].some})

Deals ==
    {deal \in
        UNION {[meta : {m},
                investment : Investments(m.horizon_years),
                v1_capital_productivity : V1s(m.horizon_years),
                v2_risk_events : Optional(ListsUpTo(RiskEvents, MaxItems)),
                v3_initiatives : Optional(SeqsUpTo(Initiatives, MaxItems)),
                v4_options : Optional(ListsUpTo(OptionOpportunities, MaxItems)),
                v4_oqi : Optional(V4OQIs),
                v5_resilience : Optional(ListsUpTo(ResilienceScenarios, MaxItems)),
                confidence : {DefaultConfidence}] : m \in Metas} :
        Populated(deal) <= MaxPopulated}

(***************************************************************************)
(* The weight mappings the caller may pass to EVEConfig.                   *)
(***************************************************************************)
V1WeightShifts == {-750000, -2, 2}
V2WeightShifts == {-1, 1, 750000}
WeightMaps ==
    {NoWeights}
    \cup {[DefaultWeights EXCEPT !.v1 = @ + a, !.v2 = @ + b] :
            a \in V1WeightShifts, b \in V2WeightShifts}
    \cup {[k \in {"v1", "v2"} |-> 500000], [k \in {} |-> 0]}

(***************************************************************************)
(* The state machine.                                                      *)
(***************************************************************************)
DealRef == 1
NoFrame == [active |-> FALSE]

Init ==
    /\ given \in Deals
    /\ heap = <<given>>
    /\ config = NoConfig
    /\ cfgArg = NoWeights
    /\ cfgStatus = "none"
    /\ pc = "idle"
    /\ frame = NoFrame
    /\ runs = <<>>
    /\ results = <<>>
    /\ changes = <<>>

\* the caller constructs EVEConfig(weights=w)
NewConfig(w) ==
    /\ pc = "idle"
    /\ cfgStatus = "none"
    /\ results = <<>>
    /\ cfgArg' = w
    /\ LET c == EVEConfig(w)
       IN IF c.status = "ok"
          THEN config' = c /\ cfgStatus' = "ok"
          ELSE config' = NoConfig /\ cfgStatus' = "error"
    /\ UNCHANGED <<heap, given, pc, frame, runs, results, changes>>

Outcome(run_sensitivity, outcome) ==
    [run_sensitivity |-> run_sensitivity, outcome |-> outcome]

RunEntry(ref, key, run_sensitivity, call) ==
    [ref |-> ref, scenario |-> key, run_sensitivity |-> run_sensitivity,
     status |-> call.outcome.status,
     EVI |-> IF call.outcome.status = "ok" THEN call.outcome.EVI ELSE 0,
     sensitivities |-> IF call.outcome.status = "ok"
                       THEN call.outcome.sensitivities ELSE <<>>,
     pipelines |-> call.pipelines]

\* the caller calls compute_eve(deal, config, run_sensitivity): lines 84-133
ComputeEve(run_sensitivity) ==
    /\ pc = "idle"
    /\ cfgStatus \in {"none", "ok"}
    /\ Len(results) < MaxCalls
    \* a repeated call repeats the arguments of the first
    /\ results # <<>> => run_sensitivity = results[1].run_sensitivity
    /\ LET cfg == IF cfgStatus = "ok" THEN config ELSE EVEConfig(NoWeights)
           base == Pipeline(heap[DealRef], cfg)
       IN /\ runs' = <<RunEntry(DealRef, "base", run_sensitivity,
                                [outcome |-> base, pipelines |-> 1])>>
          /\ IF base.status = "ok" /\ run_sensitivity
             THEN /\ pc' = "sens"
                  /\ frame' = [active |-> TRUE, config |-> cfg, base |-> base,
                               i |-> 1, out |-> <<>>]
                  /\ UNCHANGED results
             ELSE /\ pc' = "idle"
                  /\ frame' = NoFrame
                  /\ results' = Append(results, Outcome(run_sensitivity, base))
    /\ changes' = IF Len(changes) < Len(results) + 1
                  THEN Append(changes, "none") ELSE changes
    /\ UNCHANGED <<heap, given, config, cfgArg, cfgStatus>>

\* one iteration of the loop of run_simple_sensitivity: lines 146-165
Scenario ==
    /\ pc = "sens"
    /\ frame.i <= NumScenarios
    /\ LET key == ScenarioKeys[frame.i]
           copy == deepcopy(heap, DealRef)
           d2 == copy.ref
           h2 == [copy.heap EXCEPT ![d2] = Perturb(@, key)]
           call == compute_eve(h2[d2], frame.config, RerunSensitivity, 1)
       IN /\ runs' = Append(runs, RunEntry(d2, key, RerunSensitivity, call))
          /\ IF call.outcome.status = "ok"
             THEN /\ heap' = h2
                  /\ frame' = [frame EXCEPT
                                 !.i = @ + 1,
                                 !.out = Append(@, SensEntry(key, call.outcome.EVI,
                                                             frame.base.EVI))]
                  /\ UNCHANGED <<pc, results>>
             ELSE /\ heap' = <<h2[DealRef]>>
                  /\ frame' = NoFrame
                  /\ pc' = "idle"
                  /\ results' = Append(results, Outcome(TRUE, call.outcome))
    /\ UNCHANGED <<given, config, cfgArg, cfgStatus, changes>>

\* the end of run_simple_sensitivity and of compute_eve: lines 167-168, 133-135
Return ==
    /\ pc = "sens"
    /\ frame.i > NumScenarios
    /\ results' = Append(results,
                         Outcome(TRUE, [frame.base EXCEPT
                                          !.sensitivities = SortSens(frame.out)]))
    /\ heap' = <<heap[DealRef]>>
    /\ frame' = NoFrame
    /\ pc' = "idle"
    /\ UNCHANGED <<given, config, cfgArg, cfgStatus, runs, changes>>

Next ==
    \/ \E w \in WeightMaps : NewConfig(w)
    \/ \E rs \in BOOLEAN : ComputeEve(rs)
    \/ Scenario
    \/ Return

Spec == Init /\ [][Next]_vars

(***************************************************************************)
(* The caller raises one pillar's input between two calls.                 *)
(***************************************************************************)
FcfStep == 10
LossStep == 10
ProfitStep == 10
NpvStep == 10
HoursStep == 1

HasInput(deal, k) ==
    CASE k = "v1" -> /\ deal.v1_capital_productivity.some
                     /\ deal.v1_capital_productivity.val.fcf_benefit_annual.some
      [] k = "v2" -> deal.v2_risk_events.some
      [] k = "v3" -> deal.v3_initiatives.some
      [] k = "v4" -> deal.v4_options.some
      [] k = "v5" -> deal.v5_resilience.some

\* the deal with pillar k's input raised: every fcf_benefit_annual entry,
\* every L0, monthly_profit, npv_if_pursued or mttr0_hours
Increased(deal, k) ==
    CASE k = "v1" ->
            [deal EXCEPT !.v1_capital_productivity.val.fcf_benefit_annual.val =
                [t \in DOMAIN @ |-> @[t] + FcfStep]]
      [] k = "v2" ->
            [deal EXCEPT !.v2_risk_events.val =
                [i \in DOMAIN @ |-> [@[i] EXCEPT !.L0 = @ + LossStep]]]
      [] k = "v3" ->
            [deal EXCEPT !.v3_initiatives.val =
                [i \in DOMAIN @ |-> [@[i] EXCEPT !.monthly_profit = @ + ProfitStep]]]
      [] k = "v4" ->
            [deal EXCEPT !.v4_options.val =
                [i \in DOMAIN @ |-> [@[i] EXCEPT !.npv_if_pursued = @ + NpvStep]]]
      [] k = "v5" ->
            [deal EXCEPT !.v5_resilience.val =
                [i \in DOMAIN @ |-> [@[i] EXCEPT !.mttr0_hours = @ + HoursStep]]]

IncreaseInput(k) ==
    /\ pc = "idle"
    /\ results # <<>>
    /\ Len(results) < MaxCalls
    /\ Len(changes) = Len(results)
    /\ HasInput(given, k)
    /\ given' = Increased(given, k)
    /\ heap' = <<given'>>
    /\ changes' = Append(changes, k)
    /\ UNCHANGED <<config, cfgArg, cfgStatus, pc, frame, runs, results>>

NextIncrease ==
    \/ Next
    \/ \E k \in Pillars : IncreaseInput(k)

SpecIncrease == Init /\ [][NextIncrease]_vars

(***************************************************************************)
(* The loop of run_simple_sensitivity (eve_scoring.py:146-165) with its    *)
(* iterations taken in any order and interleaved: each iteration copies    *)
(* the caller's deal, perturbs the copy and reruns compute_eve on it.  The *)
(* order of the source, one iteration after the other, is one of the       *)
(* behaviours.                                                             *)
(***************************************************************************)
ScenarioSet == {ScenarioKeys[n] : n \in 1..NumScenarios}

\* the iterations that have copied the deal and not yet rerun compute_eve
InFlight(stage) == {key \in ScenarioSet : stage[key] \in {"copied", "perturbed"}}

\* compute_eve(deal, config, run_sensitivity=True) up to the loop:
\* lines 84-133 and 145
BeginSensitivity ==
    /\ pc = "idle"
    /\ cfgStatus = "none"
    /\ results = <<>>
    /\ LET cfg == EVEConfig(NoWeights)
           base == Pipeline(heap[DealRef], cfg)
       IN /\ runs' = <<RunEntry(DealRef, "base", TRUE,
                                [outcome |-> base, pipelines |-> 1])>>
          /\ IF base.status = "ok"
             THEN /\ pc' = "scenarios"
                  /\ frame' = [active |-> TRUE, config |-> cfg, base |-> base,
                               stage |-> [k \in ScenarioSet |-> "todo"],
                               d2 |-> [k \in ScenarioSet |-> 0],
                               out |-> [k \in ScenarioSet |-> None]]
                  /\ UNCHANGED results
             ELSE /\ pc' = "idle"
                  /\ frame' = NoFrame
                  /\ results' = Append(results, Outcome(TRUE, base))
    /\ changes' = Append(changes, "none")
    /\ UNCHANGED <<heap, given, config, cfgArg, cfgStatus>>

\* d2 = copy.deepcopy(deal): line 147
CopyDeal(key) ==
    /\ pc = "scenarios"
    /\ frame.stage[key] = "todo"
    /\ Cardinality(InFlight(frame.stage)) < MaxWorkers
    /\ LET copy == deepcopy(heap, DealRef)
       IN /\ heap' = copy.heap
          /\ frame' = [frame EXCEPT !.stage[key] = "copied",
                                    !.d2[key] = copy.ref]
    /\ UNCHANGED <<given, config, cfgArg, cfgStatus, pc, runs, results, changes>>

\* the perturbation of d2: lines 149-162
PerturbCopy(key) ==
    /\ pc = "scenarios"
    /\ frame.stage[key] = "copied"
    /\ heap' = [heap EXCEPT ![frame.d2[key]] = Perturb(@, key)]
    /\ frame' = [frame EXCEPT !.stage[key] = "perturbed"]
    /\ UNCHANGED <<given, config, cfgArg, cfgStatus, pc, runs, results, changes>>

\* r2 = compute_eve(d2, config, run_sensitivity=False) and the entry of the
\* scenario: lines 164-165
RerunCopy(key) ==
    /\ pc = "scenarios"
    /\ frame.stage[key] = "perturbed"
    /\ LET call == compute_eve(heap[frame.d2[key]], frame.config,
                               RerunSensitivity, 1)
       IN /\ IF call.outcome.status = "ok"
             THEN /\ frame' = [frame EXCEPT
                                 !.stage[key] = "done",
                                 !.out[key] = Some(SensEntry(key, call.outcome.EVI,
                                                             frame.base.EVI))]
                  /\ UNCHANGED <<heap, pc, results>>
             ELSE /\ heap' = <<heap[DealRef]>>
                  /\ frame' = NoFrame
                  /\ pc' = "idle"
                  /\ results' = Append(results, Outcome(TRUE, call.outcome))
    /\ UNCHANGED <<given, config, cfgArg, cfgStatus, runs, changes>>

\* the entries in the order of the scenarios, sorted and returned:
\* lines 167-168 and 133-135
ReturnSorted ==
    /\ pc = "scenarios"
    /\ \A key \in ScenarioSet : frame.stage[key] = "done"
    /\ results' = Append(results,
                         Outcome(TRUE, [frame.base EXCEPT
                                          !.sensitivities =
                                             SortSens([n \in 1..NumScenarios |->
                                                 frame.out[ScenarioKeys[n]].val])]))
    /\ heap' = <<heap[DealRef]>>
    /\ frame' = NoFrame
    /\ pc' = "idle"
    /\ UNCHANGED <<given, config, cfgArg, cfgStatus, runs, changes>>

NextAnyOrder ==
    \/ BeginSensitivity
    \/ \E key \in ScenarioSet : CopyDeal(key)
    \/ \E key \in ScenarioSet : PerturbCopy(key)
    \/ \E key \in ScenarioSet : RerunCopy(key)
    \/ ReturnSorted

SpecAnyOrder == Init /\ [][NextAnyOrder]_vars

(***************************************************************************)
(* Properties.                                                             *)
(***************************************************************************)
Finished == 1..Len(results)
Returned(i) == results[i].outcome.status = "ok"
WithSensitivity(i) == Returned(i) /\ results[i].run_sensitivity

\* C1: EVEConfig construction succeeds exactly for the weight mappings whose
\* values sum to 1.0 within 1e-6 and otherwise raises, leaving no
\* configuration; without weights it yields the defaults 0.25, 0.20, 0.20,
\* 0.20, 0.15, which pass.
C1_ConstructionChecksWeightSum ==
    cfgStatus # "none" =>
        LET defaults == [v1 |-> 250000, v2 |-> 200000, v3 |-> 200000,
                         v4 |-> 200000, v5 |-> 150000]
            w == IF cfgArg = NoWeights THEN defaults ELSE cfgArg
            s == SumValues(w, DOMAIN w)
            within == 1000000 - 1 <= s /\ s <= 1000000 + 1
        IN /\ cfgStatus = "ok" <=> within
           /\ cfgStatus = "ok" => config.status = "ok" /\ config.weights = w
           /\ cfgStatus = "error" => config = NoConfig
           /\ cfgArg = NoWeights => cfgStatus = "ok"

\* a mapping whose sum is 1.0 + 1e-6, the edge of the tolerance, was accepted
C1_Witness ==
    /\ cfgStatus = "ok"
    /\ cfgArg # NoWeights
    /\ WeightSum(cfgArg) = WScale + 1

\* capex_upfront and every opex_annual entry are 0
ZeroCost(deal) ==
    /\ deal.investment.capex_upfront = 0
    /\ \A t \in DOMAIN deal.investment.opex_annual :
          deal.investment.opex_annual[t] = 0

\* C2: compute_eve raises the degenerate-economics error exactly when
\* pv_cost <= 0, which for a validated deal is when capex_upfront and every
\* opex_annual entry are 0; the failed call returns nothing but the error,
\* and no run on a deal with pv_cost > 0 raises it.
C2_DegenerateEconomics ==
    /\ \A i \in Finished :
          LET o == results[i].outcome
          IN /\ o.status = "ValueError" <=> ZeroCost(given)
             /\ o.status = "ValueError" => DOMAIN o = {"status"}
             /\ o.status = "ok" => o.pv_cost > 0
    /\ \A n \in 1..Len(runs) : runs[n].status = "ValueError" <=> ZeroCost(given)
    /\ pc = "sens" => ~ZeroCost(given)

\* a call with sensitivity enabled on a zero-cost deal has raised
C2_Witness ==
    /\ ZeroCost(given)
    /\ results # <<>>
    /\ results[1].run_sensitivity
    /\ results[1].outcome.status = "ValueError"

ScenarioIndex(key) == CHOOSE n \in 1..4 : ScenarioKeys[n] = key

\* C3: a successful compute_eve with sensitivity enabled returns exactly 4
\* sensitivity entries, one per scenario, in descending order of
\* abs(delta_evi), entries of equal abs(delta_evi) in scenario order.
C3_SensitivityRanked ==
    \A i \in Finished :
        WithSensitivity(i) =>
            LET sens == results[i].outcome.sensitivities
            IN /\ Len(sens) = 4
               /\ \A key \in {"v1_fcf_plus10", "v2_p1_minus10",
                              "v3_profit_plus10", "v5_costhr_plus10"} :
                     Cardinality({n \in 1..Len(sens) : sens[n].factor = key}) = 1
               /\ \A m, n \in 1..Len(sens) :
                     m < n =>
                        \/ Abs(sens[m].delta_evi) > Abs(sens[n].delta_evi)
                        \/ /\ Abs(sens[m].delta_evi) = Abs(sens[n].delta_evi)
                           /\ ScenarioIndex(sens[m].factor)
                                < ScenarioIndex(sens[n].factor)

\* a returned list in which a later scenario outranks the first one and two
\* scenarios tie
C3_Witness ==
    \E i \in Finished :
        /\ WithSensitivity(i)
        /\ LET sens == results[i].outcome.sensitivities
           IN /\ sens[1].factor # "v1_fcf_plus10"
              /\ sens[1].delta_evi # 0
              /\ \E n \in 1..3 : sens[n].delta_evi = sens[n + 1].delta_evi

\* C4: the sensitivity analysis leaves the caller's deal as it was: during
\* and after every call each field of the deal has the value the caller set.
C4_DealUntouched ==
    /\ heap[DealRef] = given
    /\ pc = "idle" => heap = <<given>>

\* a call has returned sensitivities whose perturbations changed the EVI
C4_Witness ==
    /\ pc = "idle"
    /\ \E i \in Finished :
          /\ WithSensitivity(i)
          /\ results[i].outcome.sensitivities[1].delta_evi # 0
          /\ results[i].outcome.sensitivities[2].delta_evi # 0

\* a with the blanks at both ends removed
Trimmed(a) ==
    CHOOSE c \in {SubSeq(a, m, n) : m \in 1..Len(a) + 1, n \in 0..Len(a)} :
        /\ \/ c = <<>>
           \/ c[1] # 32 /\ c[Len(c)] # 32
        /\ \E m \in 0..Len(a) - Len(c) :
              /\ SubSeq(a, m + 1, m + Len(c)) = c
              /\ \A n \in (1..m) \cup (m + Len(c) + 1..Len(a)) : a[n] = 32

FoldCase(c) == IF c >= 65 /\ c <= 90 THEN c + 32 ELSE c

SameName(a, b) ==
    LET x == Trimmed(a)
        y == Trimmed(b)
    IN Len(x) = Len(y) /\ \A n \in 1..Len(x) : FoldCase(x[n]) = FoldCase(y[n])

\* the normalised names that a V2 event and a V5 scenario have in common
SharedNames(deal) ==
    LET v2 == IF deal.v2_risk_events.some THEN deal.v2_risk_events.val ELSE <<>>
        v5 == IF deal.v5_resilience.some THEN deal.v5_resilience.val ELSE <<>>
    IN {[n \in 1..Len(Trimmed(v2[i].name)) |-> FoldCase(Trimmed(v2[i].name)[n])] :
          i \in {i \in 1..Len(v2) : \E j \in 1..Len(v5) :
                                      SameName(v2[i].name, v5[j].name)}}

\* every Result carries one warning naming the shared names, or none
C5_WarningMatchesSharedNames ==
    \A i \in Finished :
        Returned(i) =>
            LET warnings == results[i].outcome.warnings
                shared == SharedNames(given)
            IN IF shared = {}
               THEN warnings = <<>>
               ELSE /\ Len(warnings) = 1
                    /\ {warnings[1].names[n] : n \in 1..Len(warnings[1].names)}
                         = shared
                    /\ Len(warnings[1].names) = Cardinality(shared)

\* C5: detect_double_counting returns exactly one warning, naming the shared
\* names, when a V2 event and a V5 scenario have the same name after
\* trimming and lower-casing, and no warning otherwise; the warning is
\* advisory, so a deal with pv_cost > 0 still yields a Result carrying it.
C5_AdvisoryWarning ==
    /\ C5_WarningMatchesSharedNames
    /\ \A i \in Finished :
          (~ZeroCost(given) /\ SharedNames(given) # {}) =>
              /\ Returned(i)
              /\ Len(results[i].outcome.warnings) = 1

\* call i follows call i - 1 with one pillar's input raised in between
RaisedBefore(i) ==
    /\ i > 1
    /\ changes[i] # "none"
    /\ Returned(i - 1)
    /\ Returned(i)

\* C6: raising one pillar's positive-contribution input and nothing else
\* never lowers that pillar's score nor the EVI, under any configuration
\* that construction accepts.
C6_Monotone ==
    \A i \in Finished :
        RaisedBefore(i) =>
            LET before == results[i - 1].outcome
                after == results[i].outcome
            IN /\ after.pillar_scores[changes[i]] >= before.pillar_scores[changes[i]]
               /\ after.EVI >= before.EVI

\* C7: two successive compute_eve calls on the same deal and configuration
\* yield identical outcomes, and the first leaves nothing behind in the deal
\* or elsewhere.
C7_Idempotent ==
    /\ \A i, j \in Finished :
          (/\ i < j
           /\ results[i].run_sensitivity = results[j].run_sensitivity
           /\ \A n \in i + 1..j : changes[n] = "none")
          => results[i].outcome = results[j].outcome
    /\ (pc = "idle" /\ \A n \in 1..Len(changes) : changes[n] = "none")
          => heap = <<given>> /\ frame = NoFrame

\* a second call has returned sensitivities that differ from zero
C7_Witness ==
    /\ Len(results) = 2
    /\ WithSensitivity(1)
    /\ WithSensitivity(2)
    /\ results[2].outcome.sensitivities[1].delta_evi # 0

EScale == 100000

\* C8: in every Result each pillar score lies in 0..100 and so does the EVI,
\* for every configuration that construction accepts.
C8_ScoresInRange ==
    \A i \in Finished :
        Returned(i) =>
            /\ \A k \in {"v1", "v2", "v3", "v4", "v5"} :
                  /\ results[i].outcome.pillar_scores[k] >= 0
                  /\ results[i].outcome.pillar_scores[k] <= 100 * 100
            /\ results[i].outcome.EVI >= 0
            /\ results[i].outcome.EVI <= 100 * EScale

\* the dataset that pillar k reads is not in the deal
Absent(deal, k) ==
    CASE k = "v1" -> \/ ~deal.v1_capital_productivity.some
                     \/ ~deal.v1_capital_productivity.val.fcf_benefit_annual.some
      [] k = "v2" -> ~deal.v2_risk_events.some
      [] k = "v3" -> ~deal.v3_initiatives.some
      [] k = "v4" -> ~deal.v4_options.some
      [] k = "v5" -> ~deal.v5_resilience.some

ScenarioPillar(key) ==
    CASE key = "v1_fcf_plus10" -> "v1"
      [] key = "v2_p1_minus10" -> "v2"
      [] key = "v3_profit_plus10" -> "v3"
      [] key = "v5_costhr_plus10" -> "v5"

\* C9: a pillar whose dataset is absent has PV benefit 0, and its
\* sensitivity scenario is still in the list, with delta_evi exactly 0.
C9_AbsentDataset ==
    \A i \in Finished :
        Returned(i) =>
            /\ \A k \in {"v1", "v2", "v3", "v4", "v5"} :
                  Absent(given, k) => results[i].outcome.pillar_pv_benefits[k] = 0
            /\ results[i].run_sensitivity =>
                  \A key \in {"v1_fcf_plus10", "v2_p1_minus10",
                              "v3_profit_plus10", "v5_costhr_plus10"} :
                      Absent(given, ScenarioPillar(key)) =>
                          \E n \in 1..Len(results[i].outcome.sensitivities) :
                              /\ results[i].outcome.sensitivities[n].factor = key
                              /\ results[i].outcome.sensitivities[n].delta_evi = 0

\* a returned list with the entry of an absent dataset next to an entry that
\* moved the EVI, under a base EVI that is not 0
C9_Witness ==
    \E i \in Finished :
        /\ WithSensitivity(i)
        /\ Absent(given, "v1")
        /\ results[i].outcome.EVI # 0
        /\ results[i].outcome.sensitivities[1].delta_evi # 0
        /\ results[i].outcome.sensitivities[4].delta_evi = 0

\* the runs of a call: one per loop iteration, reruns without sensitivities
C10_RunLog ==
    /\ pc = "sens" => /\ frame.i <= 4 + 1
                      /\ Len(runs) = frame.i
                      /\ Len(frame.out) = frame.i - 1
    /\ \A n \in 2..Len(runs) :
          /\ runs[n].run_sensitivity = FALSE
          /\ runs[n].sensitivities = <<>>
          /\ runs[n].pipelines = 1
          /\ runs[n].scenario = ScenarioKeys[n - 1]
    /\ (pc = "idle" /\ results # <<>> /\ WithSensitivity(Len(results))) =>
          LET sens == results[Len(results)].outcome.sensitivities
          IN /\ Len(runs) = 1 + 4
             /\ runs[1].scenario = "base"
             /\ runs[1].ref = DealRef
             /\ runs[1].EVI = results[Len(results)].outcome.EVI
             /\ \A n \in 1..Len(sens) :
                   \E m \in 2..Len(runs) :
                       /\ runs[m].scenario = sens[n].factor
                       /\ sens[n].delta_evi = runs[m].EVI - runs[1].EVI

\* every step of a call in progress ends the call or starts the next scenario
C10_Advances ==
    pc = "sens" => \/ pc' = "idle"
                   \/ pc' = "sens" /\ frame'.i = frame.i + 1

\* C10: every step of a compute_eve call with sensitivity enabled ends the
\* call or moves on to the next of the 4 scenarios, with one more run behind
\* it, so the call ends within 5 steps; when it returns it
\* has run the pipeline once for the base deal and once per scenario, each
\* rerun with sensitivity disabled, returning no sensitivities and rerunning
\* nothing; every delta_evi is that rerun's EVI minus the base EVI of the call.
C10_RerunsOnce == []C10_RunLog /\ [][C10_Advances]_vars

\* a call has returned after its four reruns, one of which moved the EVI
C10_Witness ==
    /\ pc = "idle"
    /\ results # <<>>
    /\ WithSensitivity(Len(results))
    /\ Len(runs) = 5
    /\ runs[5].EVI # runs[1].EVI

\* the dataset that a scenario perturbs
TargetField(key) ==
    CASE key = "v1_fcf_plus10" -> "v1_capital_productivity"
      [] key = "v2_p1_minus10" -> "v2_risk_events"
      [] key = "v3_profit_plus10" -> "v3_initiatives"
      [] key = "v5_costhr_plus10" -> "v5_resilience"

\* x scaled by pct percent
Scaled(x, pct) == (x * pct) \div 100

\* d is orig but for the field the scenario targets: fcf_benefit_annual
\* x1.10, p1 x0.90 kept within 0..1, monthly_profit x1.10, cost_per_hour x1.10
OnlyTargetChanged(orig, d, key) ==
    LET a == orig[TargetField(key)]
        b == d[TargetField(key)]
        p1(x) == IF Scaled(x, 90) < 0 THEN 0
                 ELSE IF Scaled(x, 90) > 1000 THEN 1000 ELSE Scaled(x, 90)
    IN /\ DOMAIN d = DOMAIN orig
       /\ \A f \in DOMAIN orig \ {TargetField(key)} : d[f] = orig[f]
       /\ b.some = a.some
       /\ a.some =>
             CASE key = "v1_fcf_plus10" ->
                    /\ DOMAIN b.val = DOMAIN a.val
                    /\ b.val.fcf_benefit_annual.some = a.val.fcf_benefit_annual.some
                    /\ a.val.fcf_benefit_annual.some =>
                          /\ Len(b.val.fcf_benefit_annual.val)
                               = Len(a.val.fcf_benefit_annual.val)
                          /\ \A t \in DOMAIN a.val.fcf_benefit_annual.val :
                                b.val.fcf_benefit_annual.val[t]
                                  = Scaled(a.val.fcf_benefit_annual.val[t], 110)
               [] key = "v2_p1_minus10" ->
                    /\ Len(b.val) = Len(a.val)
                    /\ \A n \in DOMAIN a.val :
                          b.val[n] = [a.val[n] EXCEPT !.p1 = p1(a.val[n].p1)]
               [] key = "v3_profit_plus10" ->
                    /\ Len(b.val) = Len(a.val)
                    /\ \A n \in DOMAIN a.val :
                          b.val[n] = [a.val[n] EXCEPT !.monthly_profit =
                                         Scaled(a.val[n].monthly_profit, 110)]
               [] key = "v5_costhr_plus10" ->
                    /\ Len(b.val) = Len(a.val)
                    /\ \A n \in DOMAIN a.val :
                          b.val[n] = [a.val[n] EXCEPT !.cost_per_hour =
                                         Scaled(a.val[n].cost_per_hour, 110)]

\* the call as the source runs it, one scenario after the other
InSourceOrder == compute_eve(given, EVEConfig(NoWeights), TRUE, 0).outcome

\* the rerun of one scenario when no other scenario runs at all
Alone(key) ==
    compute_eve(Perturb(given, key), EVEConfig(NoWeights), FALSE, 1).outcome

\* every scenario under way has a deal object of its own, which differs from
\* the caller's deal in its targeted field only, and the caller's deal is as
\* the caller set it
C11_OwnCopies ==
    pc = "scenarios" =>
        /\ heap[DealRef] = given
        /\ \A key \in ScenarioSet :
              /\ frame.stage[key] # "todo" =>
                    /\ frame.d2[key] \in 2..Len(heap)
                    /\ \A other \in ScenarioSet \ {key} :
                          frame.stage[other] # "todo" =>
                              frame.d2[other] # frame.d2[key]
              /\ frame.stage[key] = "copied" => heap[frame.d2[key]] = given
              /\ frame.stage[key] \in {"perturbed", "done"} =>
                    OnlyTargetChanged(given, heap[frame.d2[key]], key)

\* whatever the order, a scenario's entry is the one it gets when run alone,
\* and the call returns what it returns in the order of the source
C11_SameResults ==
    /\ pc = "scenarios" =>
          \A key \in ScenarioSet :
              frame.stage[key] = "done" =>
                  /\ Alone(key).status = "ok"
                  /\ frame.out[key].val =
                        [factor |-> key, label |-> ScenarioLabel(key),
                         delta_evi |-> Alone(key).EVI - frame.base.EVI]
    /\ \A i \in Finished :
          IF Returned(i)
          THEN results[i].outcome = InSourceOrder
          ELSE /\ InSourceOrder.status # "ok"
               /\ \/ results[i].outcome = Pipeline(given, EVEConfig(NoWeights))
                  \/ \E key \in ScenarioSet : results[i].outcome = Alone(key)

\* C11: the four sensitivity scenarios are independent.  Run in any order and
\* interleaved, each scenario works on its own copy of the deal, which
\* differs from the original in the scenario's targeted field only; no
\* scenario sees the perturbation of another; each scenario's result, and
\* the result of the call, is the one of the source's order.
C11_ScenariosIndependent == C11_OwnCopies /\ C11_SameResults

\* the scenario copied last has finished and moved the EVI while the copy of
\* the first scenario is perturbed and waits for its rerun
C11_Witness ==
    /\ pc = "scenarios"
    /\ frame.stage["v5_costhr_plus10"] = "done"
    /\ frame.out["v5_costhr_plus10"].val.delta_evi # 0
    /\ frame.stage["v1_fcf_plus10"] = "perturbed"
    /\ heap[frame.d2["v1_fcf_plus10"]] # given
    /\ frame.d2["v1_fcf_plus10"] < frame.d2["v5_costhr_plus10"]
    /\ frame.stage["v2_p1_minus10"] = "todo"

\* C12: once EVEConfig has been constructed, or defaulted, no compute_eve
\* call on a deal with pv_cost > 0 fails because of the weights: none ends in
\* the KeyError of a mapping that lacks a pillar id.
C12_WeightsFailAtConstruction ==
    \A i \in Finished :
        (cfgStatus \in {"none", "ok"} /\ ~ZeroCost(given)) =>
            results[i].outcome.status # "KeyError"

====
